---- MODULE Spec2Model ----
(***************************************************************************)
(* Student-record REST service (src/index.js): the Mongoose schema, the    *)
(* bcrypt pre-save hook, the JWT authenticate middleware and the request   *)
(* handlers of both route sets (/students/... and /api/v1/students/...),   *)
(* over a document store with unique indexes on studentId and email.       *)
(*                                                                         *)
(* Strings are sequences of one-character strings, so that trim, lowercase *)
(* and the e-mail pattern are computed and not assumed.                    *)
(***************************************************************************)
EXTENDS Integers, Sequences, FiniteSets, TLC

VARIABLES store, nextId, now, tokens, pending, resp, registered, deletedNoReg, deletedGone

vars == <<store, nextId, now, tokens, pending, resp, registered, deletedNoReg, deletedGone>>

\* what an observer of the responses has seen: not state of the program
hist == <<registered, deletedNoReg, deletedGone>>

\* ------------------------------------------------------------------ bounds
MaxDocs == 2        \* documents ever created
MaxTime == 2        \* clock ticks (hours)
MaxTokens == 1      \* issued tokens a client keeps for later requests
NumClients == 2     \* concurrent registration requests in flight
MaxPatchFields == 1 \* fields one update request sets

\* ------------------------------------------------------------------ strings
Undefined == <<"undefined">>      \* a property absent from the request
Empty == <<>>                     \* the empty string ''

S1sp == <<" ", "S", "1">>         \* ' S1'
S2 == <<"S", "2">>
Ann == <<"A", "n", "n">>
MailAUp == <<"A", "@", "x", ".", "c", "o">>
MailB == <<"b", "@", "x", ".", "c", "o">>
MailBad == <<"b", "a", "d">>
Pw1 == <<"p", "1">>
Pw2 == <<"p", "2">>

Uppers == <<"A","B","C","D","E","F","G","H","I","J","K","L","M",
            "N","O","P","Q","R","S","T","U","V","W","X","Y","Z">>
Lowers == <<"a","b","c","d","e","f","g","h","i","j","k","l","m",
            "n","o","p","q","r","s","t","u","v","w","x","y","z">>
Digits == {"0","1","2","3","4","5","6","7","8","9"}

Range(f) == {f[i] : i \in DOMAIN f}

WordChars == Range(Uppers) \cup Range(Lowers) \cup Digits \cup {"_"}

\* \w of the e-mail pattern
IsWord(c) == c \in WordChars

LowerChar(c) ==
  IF \E i \in DOMAIN Uppers : Uppers[i] = c
    THEN Lowers[CHOOSE i \in DOMAIN Uppers : Uppers[i] = c]
    ELSE c

\* schema option lowercase: true
ToLower(s) == [i \in DOMAIN s |-> LowerChar(s[i])]

RECURSIVE TrimLeft(_)
TrimLeft(s) == IF s # <<>> /\ Head(s) = " " THEN TrimLeft(Tail(s)) ELSE s

RECURSIVE TrimRight(_)
TrimRight(s) ==
  IF s # <<>> /\ s[Len(s)] = " " THEN TrimRight(SubSeq(s, 1, Len(s) - 1)) ELSE s

\* schema option trim: true
Trim(s) == TrimRight(TrimLeft(s))

\* \w+([.-]?\w+)*
MatchAtom(s) ==
  /\ s # <<>>
  /\ IsWord(s[1]) /\ IsWord(s[Len(s)])
  /\ \A i \in DOMAIN s : IsWord(s[i]) \/ s[i] \in {".", "-"}
  /\ \A i \in 1..(Len(s) - 1) : IsWord(s[i]) \/ IsWord(s[i + 1])

\* (\.\w{2,3})+$
RECURSIVE MatchTld(_)
MatchTld(s) ==
  /\ Len(s) >= 3
  /\ s[1] = "."
  /\ \/ /\ IsWord(s[2]) /\ IsWord(s[3])
        /\ (Len(s) = 3 \/ MatchTld(SubSeq(s, 4, Len(s))))
     \/ /\ Len(s) >= 4
        /\ IsWord(s[2]) /\ IsWord(s[3]) /\ IsWord(s[4])
        /\ (Len(s) = 4 \/ MatchTld(SubSeq(s, 5, Len(s))))

\* /^\w+([.-]?\w+)*@\w+([.-]?\w+)*(\.\w{2,3})+$/
EmailMatch(s) ==
  \E k \in DOMAIN s :
    /\ s[k] = "@"
    /\ MatchAtom(SubSeq(s, 1, k - 1))
    /\ \E j \in (k + 1)..Len(s) :
         /\ MatchAtom(SubSeq(s, k + 1, j))
         /\ MatchTld(SubSeq(s, j + 1, Len(s)))

\* JavaScript !v for a request property: undefined and '' are falsy
Falsy(v) == v = Undefined \/ v = Empty

\* ------------------------------------------------------------------ schema
Fields == {"_id", "studentId", "name", "email", "password"}

OidNames == <<"o1", "o2", "o3", "o4", "o5">>
ObjectId(n) == <<OidNames[n]>>

\* setters of a schema path, run when a document is built and when a filter
\* or an update is cast
CastPath(f, v) ==
  IF v = Undefined THEN v
  ELSE IF f = "email" THEN ToLower(Trim(v))
  ELSE IF f \in {"studentId", "name"} THEN Trim(v)
  ELSE v

\* validators of a schema path: required on every path, match on email
ValidPath(f, v) ==
  /\ v # Undefined
  /\ v # Empty
  /\ (f = "email" => EmailMatch(v))

\* password is select: false: left out of every query result unless asked for
DefaultSelect == Fields \ {"password"}

Project(doc, sel) == [f \in sel |-> doc[f]]

\* ------------------------------------------------------------------ bcrypt
SaltNames == <<"s1", "s2", "s3", "s4", "s5">>

\* bcrypt.genSalt: a fresh salt for every call
GenSalt(n) == SaltNames[n]

\* bcrypt.hash: the salt is embedded in the result
BcryptHash(pw, salt) == <<"$2b$", salt>> \o pw

IsBcryptHash(h) == Len(h) >= 2 /\ h[1] = "$2b$"

\* bcrypt.compare: false, not an error, for a string that is no bcrypt hash
BcryptCompare(pw, h) == IsBcryptHash(h) /\ SubSeq(h, 3, Len(h)) = pw

\* ------------------------------------------------------------------ store
\* unique: true on studentId and on email: the store's unique indexes
\* a store whose indexes on studentId and email are not unique
NoUniqueIndex(s, doc) == TRUE

UniqueOk(s, doc) ==
  \A d \in s : d._id # doc._id =>
    d.studentId # doc.studentId /\ d.email # doc.email

\* documents a filter { studentId: v } selects. With v undefined the driver
\* either drops the key (the filter is {} and selects every document) or sends
\* null (selects none): strip says which.
Strips(v) == IF v = Undefined THEN BOOLEAN ELSE {FALSE}

MatchStudentId(s, v, strip) ==
  IF v = Undefined THEN (IF strip THEN s ELSE {})
  ELSE {d \in s : d.studentId = CastPath("studentId", v)}

\* a pre-check that looks for the studentId only
MatchIdOnly(s, sid, email) ==
  {d \in s : d.studentId = CastPath("studentId", sid)}

\* Student.findOne({ $or: [{ studentId }, { email }] })
MatchIdOrEmail(s, sid, email) ==
  {d \in s : \/ d.studentId = CastPath("studentId", sid)
             \/ d.email = CastPath("email", email)}

\* new Student({ studentId, name, email, password })
NewStudent(n, body) ==
  [_id |-> ObjectId(n),
   studentId |-> CastPath("studentId", body.studentId),
   name |-> CastPath("name", body.name),
   email |-> CastPath("email", body.email),
   password |-> CastPath("password", body.password)]

ValidDoc(doc) == \A f \in Fields \ {"_id"} : ValidPath(f, doc[f])

\* studentSchema.pre('save'): hash the password when it was modified
PreSave(doc, modified, n) ==
  IF "password" \notin modified THEN doc
  ELSE [doc EXCEPT !.password = BcryptHash(doc.password, GenSalt(n))]

\* newStudent.save() / Student.create(): validate, run the pre-save hook,
\* insert under the unique indexes. err is "" or the error thrown.
Insert(s, doc) ==
  IF ~UniqueOk(s, doc)
    THEN [err |-> "E11000", store |-> s, doc |-> doc]
    ELSE [err |-> "", store |-> s \cup {doc}, doc |-> doc]

Save(s, doc, n) ==
  IF ~ValidDoc(doc) THEN [err |-> "ValidationError", store |-> s, doc |-> doc]
  ELSE Insert(s, PreSave(doc, Fields, n))

\* the update document after casting: schema setters run, no save hook
CastUpdate(patch) == [f \in DOMAIN patch |-> CastPath(f, patch[f])]

ApplyUpdate(doc, patch) ==
  [f \in Fields |-> IF f \in DOMAIN patch THEN patch[f] ELSE doc[f]]

\* Student.findOneAndUpdate({ studentId }, newData, { new: true, runValidators })
\* found is the document the filter selected, or none when found = {}
Replace(s, old, new) ==
  IF ~UniqueOk(s, new)
    THEN [err |-> "E11000", store |-> s, docs |-> {}]
    ELSE [err |-> "", store |-> (s \ {old}) \cup {new}, docs |-> {new}]

UpdateOne(s, old, patch) == Replace(s, old, ApplyUpdate(old, patch))

\* an update that, finding no document, changes whichever document is stored
UpdateAny(s, found, patch, runValidators) ==
  IF runValidators /\ \E f \in DOMAIN patch : ~ValidPath(f, patch[f])
    THEN [err |-> "ValidationError", store |-> s, docs |-> {}]
  ELSE IF found = {} /\ s = {} THEN [err |-> "", store |-> s, docs |-> {}]
  ELSE UpdateOne(s, CHOOSE d \in (IF found = {} THEN s ELSE found) : TRUE, patch)

UpdateCast(s, found, patch, runValidators) ==
  IF runValidators /\ \E f \in DOMAIN patch : ~ValidPath(f, patch[f])
    THEN [err |-> "ValidationError", store |-> s, docs |-> {}]
  ELSE IF found = {} THEN [err |-> "", store |-> s, docs |-> {}]
  ELSE UpdateOne(s, CHOOSE d \in found : TRUE, patch)

FindOneAndUpdate(s, found, newData, runValidators) ==
  UpdateCast(s, found, CastUpdate(newData), runValidators)

\* ------------------------------------------------------------------ tokens
TokenTTL == 1       \* expiresIn: '1h', in clock ticks

NoToken == [id |-> Empty, exp |-> 0, sig |-> "none"]
NoHeader == [scheme |-> "none", token |-> NoToken]

\* jwt.sign({ id: student._id }, JWT_SECRET, { expiresIn })
JwtSign(id, t) == [id |-> id, exp |-> t + TokenTTL, sig |-> "ok"]

\* a verification that ignores the expiry
JwtVerifySignatureOnly(token, t) == token.sig = "ok"

\* jwt.verify(token, JWT_SECRET): throws on a bad signature and once the
\* clock has reached exp
JwtVerify(token, t) == token.sig = "ok" /\ t < token.exp

\* the authenticate middleware's token: the second word of a Bearer header
BearerToken(header) ==
  IF header.scheme = "Bearer" THEN header.token ELSE NoToken

\* ------------------------------------------------------------------ responses
NoData == [f \in {} |-> Empty]

Reply(route, v, status, error) ==
  [route |-> route, v |-> v, status |-> status, error |-> error,
   data |-> NoData, token |-> NoToken,
   studentId |-> Undefined, header |-> NoHeader]

Initial == Reply("none", 0, 0, "")

\* ------------------------------------------------------------------ requests
ReqIds == {Undefined, Empty, S1sp, S2}
Versions == {1, 2}      \* 1: /students/..., 2: /api/v1/students/...

PatchValues(f) ==
  IF f = "studentId" THEN {S1sp, S2}
  ELSE IF f = "email" THEN {MailAUp, MailBad}
  ELSE {Pw2}

\* objects of at most MaxPatchFields fields to set
Patches ==
  UNION {{p \in [K -> {S1sp, S2, MailAUp, MailBad, Pw2}] :
            \A f \in K : p[f] \in PatchValues(f)} :
         K \in {X \in SUBSET {"studentId", "email", "password"} :
                  Cardinality(X) <= MaxPatchFields}}

\* newData of an update request: absent, or an object of fields to set
NewDatas ==
  {[present |-> FALSE, set |-> NoData]} \cup {[present |-> TRUE, set |-> p] : p \in Patches}

\* update requests: a studentId with any newData, and no or an empty
\* studentId with a newData that sets the password
UpdateRequests ==
  ({S1sp, S2} \X NewDatas)
    \cup ({Undefined, Empty} \X {[present |-> TRUE, set |-> [f \in {"password"} |-> Pw2]]})

Clients == 1..NumClients
NoBody == [studentId |-> Undefined, name |-> Undefined, email |-> Undefined,
           password |-> Undefined, v |-> 0]

Init ==
  /\ store = {}
  /\ nextId = 1
  /\ now = 0
  /\ tokens = {}
  /\ pending = [c \in Clients |-> NoBody]
  /\ resp = Initial
  /\ registered = {}
  /\ deletedNoReg = {}
  /\ deletedGone = {}

\* ------------------------------------------------------------------ register
RegisterMissing(body) ==
  Falsy(body.studentId) \/ Falsy(body.name) \/ Falsy(body.email) \/ Falsy(body.password)

RegisterError(v, what) ==
  IF what = "missing"
    THEN (IF v = 1 THEN "Missing required fields" ELSE "All fields are required")
  ELSE IF what = "exists" THEN "Student ID or email already exists"
  ELSE (IF v = 1 THEN "Error registering student" ELSE "Server error during registration")

\* the handler after its pre-check found nothing: build the document, save
\* it, answer 201 with the public fields, or 500 from the catch block
RegisterAnswer(r, body) ==
  IF r.err # ""
    THEN [store |-> r.store, created |-> {},
          resp |-> [Reply("register", body.v, 500, RegisterError(body.v, "error"))
                      EXCEPT !.studentId = body.studentId]]
    ELSE [store |-> r.store, created |-> {r.doc},
          resp |-> [Reply("register", body.v, 201, "") EXCEPT
                      !.studentId = body.studentId,
                      !.data = Project(r.doc, {"studentId", "name", "email"})]]

RegisterSaved(s, body, n) == RegisterAnswer(Save(s, NewStudent(n, body), n), body)

\* the handler up to and including the pre-check; "" when it goes on to save
RegisterChecked(s, body) ==
  IF RegisterMissing(body) THEN "missing"
  ELSE IF MatchIdOrEmail(s, body.studentId, body.email) # {} THEN "exists"
  ELSE ""

RegisterEffect(out) ==
  /\ store' = out.store
  /\ resp' = out.resp
  /\ nextId' = IF out.created = {} THEN nextId ELSE nextId + 1

RegisterRefused(body, what) ==
  [store |-> store, created |-> {},
   resp |-> [Reply("register", body.v, IF what = "missing" THEN 400 ELSE 409,
                   RegisterError(body.v, what))
               EXCEPT !.studentId = body.studentId]]

\* complete bodies, and one of them with each field in turn empty or absent
FullBodies ==
  [studentId : {S1sp, S2}, name : {Ann}, email : {MailAUp, MailB, MailBad},
   password : {Pw1}, v : Versions]

Bodies ==
  FullBodies \cup
  UNION {{[b EXCEPT !.studentId = Undefined], [b EXCEPT !.name = Empty],
          [b EXCEPT !.email = Empty], [b EXCEPT !.password = Undefined]} :
         b \in {x \in FullBodies : x.studentId = S2 /\ x.email = MailB}}

\* POST /students/register and POST /api/v1/students/register, processed
\* with no other request in between
RegisterRequest(body) ==
  /\ nextId <= MaxDocs
  /\ \E what \in {RegisterChecked(store, body)} :
       \E out \in {IF what # "" THEN RegisterRefused(body, what)
                    ELSE RegisterSaved(store, body, nextId)} :
         RegisterEffect(out)
  /\ UNCHANGED <<now, tokens, pending>>

Register == \E body \in Bodies : RegisterRequest(body)

\* ------------------------------------------------------------------ login
LoginError(v, what) ==
  IF what = "missing" THEN "Student ID and password are required"
  ELSE IF what = "credentials" THEN "Invalid credentials"
  ELSE (IF v = 1 THEN "Error logging in" ELSE "Server error during login")

\* a login that tells an unknown studentId from a wrong password
LoginNotFound(v, sid) ==
  [Reply("login", v, 404, "Student not found") EXCEPT !.studentId = sid]

\* the 401 of a login whose studentId selects no document
LoginUnknown(v, sid) ==
  [Reply("login", v, 401, LoginError(v, "credentials")) EXCEPT !.studentId = sid]

\* the 401 of a login whose password bcrypt.compare rejects
LoginMismatch(v, sid) ==
  [Reply("login", v, 401, LoginError(v, "credentials")) EXCEPT !.studentId = sid]

\* the handler once findOne(...).select('+password') found student
LoginFound(student, v, sid, pw, t) ==
  IF ~BcryptCompare(pw, student.password) THEN LoginMismatch(v, sid)
  ELSE [Reply("login", v, 200, "") EXCEPT
          !.studentId = sid,
          !.token = JwtSign(student._id, t),
          !.data = Project(student, {"studentId", "name", "email"})]

LoginLookup(found, v, sid, pw, t) ==
  IF found = {} THEN LoginUnknown(v, sid)
  ELSE LoginFound(Project(CHOOSE d \in found : TRUE, Fields), v, sid, pw, t)

LoginResponse(s, v, sid, pw, t) ==
  IF Falsy(sid) \/ Falsy(pw)
    THEN [Reply("login", v, 400, LoginError(v, "missing")) EXCEPT !.studentId = sid]
  ELSE LoginLookup(MatchStudentId(s, sid, FALSE), v, sid, pw, t)

\* POST /students/login and POST /api/v1/students/login
LoginRequest(v, sid, pw) ==
  /\ resp' = LoginResponse(store, v, sid, pw, now)
  /\ UNCHANGED <<store, nextId, now, tokens, pending>>

\* complete credentials, and credentials with one of the two empty or absent
Credentials ==
  ({S1sp, S2} \X {Pw1, Pw2}) \cup ({Undefined, Empty} \X {Pw1}) \cup ({S2} \X {Undefined, Empty})

Login == \E v \in Versions, c \in Credentials : LoginRequest(v, c[1], c[2])

\* ------------------------------------------------------------------ search
\* a query result that keeps every path of the document
WholeDocument(doc) == doc

\* what Student.findOne({ studentId }) hands to the handler
QueryResult(doc) == Project(doc, DefaultSelect)

\* GET /students/search (first definition)
Search1 ==
  /\ \E sid \in ReqIds :
       resp' =
         IF Falsy(sid)
           THEN [Reply("search", 1, 400, "Student ID is required") EXCEPT !.studentId = sid]
         ELSE LET found == MatchStudentId(store, sid, FALSE) IN
              IF found = {}
                THEN [Reply("search", 1, 404, "Student not found") EXCEPT !.studentId = sid]
                ELSE [Reply("search", 1, 200, "") EXCEPT
                        !.studentId = sid,
                        !.data = QueryResult(CHOOSE d \in found : TRUE)]
  /\ UNCHANGED <<store, nextId, now, tokens, pending>>

\* GET /students/search (second definition): no check of studentId
Search2 ==
  /\ \E sid \in ReqIds : \E strip \in Strips(sid) :
       LET found == MatchStudentId(store, sid, strip) IN
       \/ /\ found = {}
          /\ resp' = [Reply("search", 2, 404, "Student not found") EXCEPT !.studentId = sid]
       \/ \E d \in found :
            resp' = [Reply("search", 2, 200, "") EXCEPT
                       !.studentId = sid, !.data = QueryResult(d)]
  /\ UNCHANGED <<store, nextId, now, tokens, pending>>

\* ------------------------------------------------------------------ update
UpdateEffect(r, res) ==
  /\ store' = r.store
  /\ resp' = res
  /\ UNCHANGED <<nextId, now, tokens, pending>>

\* PUT /students/update (first definition)
Update1Request(sid, newData) ==
    IF Falsy(sid) \/ ~newData.present
      THEN UpdateEffect([store |-> store, docs |-> {}],
             [Reply("update", 1, 400, "Student ID and update data are required")
                EXCEPT !.studentId = sid])
    ELSE \E r \in {FindOneAndUpdate(store, MatchStudentId(store, sid, FALSE),
                                   newData.set, TRUE)} :
         UpdateEffect(r,
           IF r.err # ""
             THEN [Reply("update", 1, 500, "Error updating profile") EXCEPT !.studentId = sid]
           ELSE IF r.docs = {}
             THEN [Reply("update", 1, 404, "Student not found") EXCEPT !.studentId = sid]
           ELSE [Reply("update", 1, 200, "") EXCEPT
                   !.studentId = sid,
                   !.data = QueryResult(CHOOSE d \in r.docs : TRUE)])

Update1 == \E u \in UpdateRequests : Update1Request(u[1], u[2])

\* PUT /students/update (second definition): no check of studentId or
\* newData, no validators. An absent newData updates nothing.
Update2Request(sid, newData) ==
  \E strip \in Strips(sid) :
    LET found == MatchStudentId(store, sid, strip) IN
    \E target \in (IF found = {} THEN {{}} ELSE {{d} : d \in found}) :
      \E r \in {FindOneAndUpdate(store, target, newData.set, FALSE)} :
      UpdateEffect(r,
        IF r.err # ""
          THEN [Reply("update", 2, 500, "Error updating profile") EXCEPT !.studentId = sid]
        ELSE IF r.docs = {}
          THEN [Reply("update", 2, 404, "Student not found") EXCEPT !.studentId = sid]
        ELSE [Reply("update", 2, 200, "") EXCEPT
                !.studentId = sid,
                !.data = QueryResult(CHOOSE d \in r.docs : TRUE)])

Update2 == \E u \in UpdateRequests : Update2Request(u[1], u[2])

\* ------------------------------------------------------------------ delete
\* a delete that answers and removes nothing
DeleteNothing(gone, sid, res) ==
  /\ store' = store
  /\ resp' = res
  /\ UNCHANGED <<nextId, now, tokens, pending>>

DeleteEffect(gone, sid, res) ==
  /\ store' = store \ gone
  /\ resp' = res
  /\ UNCHANGED <<nextId, now, tokens, pending>>

\* DELETE /students/delete (first definition)
Delete1 ==
  \E sid \in ReqIds :
    IF Falsy(sid)
      THEN DeleteEffect({}, sid,
             [Reply("delete", 1, 400, "Student ID is required") EXCEPT !.studentId = sid])
    ELSE LET found == MatchStudentId(store, sid, FALSE) IN
         IF found = {}
           THEN DeleteEffect({}, sid,
                  [Reply("delete", 1, 404, "Student not found") EXCEPT !.studentId = sid])
           ELSE DeleteEffect(found, sid,
                  [Reply("delete", 1, 200, "") EXCEPT !.studentId = sid])

\* DELETE /students/delete (second definition): no check of studentId
Delete2 ==
  \E sid \in ReqIds : \E strip \in Strips(sid) :
    LET found == MatchStudentId(store, sid, strip) IN
    \/ /\ found = {}
       /\ DeleteEffect({}, sid,
            [Reply("delete", 2, 404, "Student not found") EXCEPT !.studentId = sid])
    \/ \E d \in found :
         DeleteEffect({d}, sid, [Reply("delete", 2, 200, "") EXCEPT !.studentId = sid])

\* ------------------------------------------------------------------ profile
\* Student.findById(decoded.id).select('-password')
FindById(s, id) == {Project(d, Fields \ {"password"}) : d \in {x \in s : x._id = id}}

\* the authenticate middleware: "next" with req.student, or its own 401
Authenticate(s, header, t) ==
  LET token == BearerToken(header) IN
  IF token = NoToken
    THEN [next |-> FALSE, student |-> NoData,
          resp |-> [Reply("authenticate", 2, 401, "Authentication required")
                      EXCEPT !.header = header]]
  ELSE IF ~JwtVerify(token, t)
    THEN [next |-> FALSE, student |-> NoData,
          resp |-> [Reply("authenticate", 2, 401, "Invalid or expired token")
                      EXCEPT !.header = header]]
  ELSE LET found == FindById(s, token.id) IN
       IF found = {}
         THEN [next |-> FALSE, student |-> NoData,
               resp |-> [Reply("authenticate", 2, 401, "Student not found")
                           EXCEPT !.header = header]]
         ELSE [next |-> TRUE, student |-> CHOOSE d \in found : TRUE,
               resp |-> [Reply("authenticate", 2, 0, "") EXCEPT !.header = header]]

\* the tokens a client holds: those it kept and the one just issued to it
Held == tokens \cup (IF resp.token # NoToken THEN {resp.token} ELSE {})

\* headers a client can send: none, another scheme, Bearer with nothing after
\* it, a token it holds, or such a token with its signature corrupted
Headers ==
  {NoHeader, [scheme |-> "Bearer", token |-> NoToken]}
    \cup {[scheme |-> sch, token |-> tk] : sch \in {"Bearer", "Basic"}, tk \in Held}
    \cup {[scheme |-> "Bearer", token |-> [tk EXCEPT !.sig = "bad"]] : tk \in Held}

\* GET /api/v1/students/profile behind authenticate
ProfileRequest(header) ==
  /\ \E a \in {Authenticate(store, header, now)} :
     resp' = IF a.next
               THEN [Reply("profile", 2, 200, "") EXCEPT
                       !.header = header, !.data = a.student]
               ELSE a.resp
  /\ UNCHANGED <<store, nextId, now, tokens, pending>>

Profile == \E header \in Headers : ProfileRequest(header)

\* a client keeps the token a login has just issued
Keep ==
  /\ resp.token # NoToken
  /\ resp.token \notin tokens
  /\ Cardinality(tokens) < MaxTokens
  /\ tokens' = tokens \cup {resp.token}
  /\ UNCHANGED <<store, nextId, now, pending, resp>>

\* the clock
Tick ==
  /\ now < MaxTime
  /\ now' = now + 1
  /\ UNCHANGED <<store, nextId, tokens, pending, resp>>

\* ------------------------------------------------------------------ concurrent registration
ConcBodies ==
  [studentId : {S1sp, S2}, name : {Ann}, email : {MailAUp, MailB},
   password : {Pw1}, v : Versions]

\* a register request up to its await of findOne: answered 400 or 409, or
\* suspended with the pre-check passed. MaxDocs bounds the documents created and
\* about to be.
InFlight == Cardinality({c \in Clients : pending[c] # NoBody})

RegisterCheck(c) ==
  /\ nextId + InFlight <= MaxDocs
  /\ pending[c] = NoBody
  /\ \E body \in ConcBodies :
       \E what \in {RegisterChecked(store, body)} :
       IF what # ""
         THEN /\ \E out \in {RegisterRefused(body, what)} : RegisterEffect(out)
              /\ UNCHANGED pending
         ELSE /\ pending' = [pending EXCEPT ![c] = body]
              /\ UNCHANGED <<store, nextId, resp>>
  /\ UNCHANGED <<now, tokens>>

\* the same request resumed: save and answer
RegisterSave(c) ==
  /\ pending[c] # NoBody
  /\ \E out \in {RegisterSaved(store, pending[c], nextId)} : RegisterEffect(out)
  /\ pending' = [pending EXCEPT ![c] = NoBody]
  /\ UNCHANGED <<now, tokens>>

\* ------------------------------------------------------------------ observer
\* the studentId a response's request named, as the store compares it
Named(r) == CastPath("studentId", r.studentId)

\* registered: the (studentId, email) pairs a registration answered 201 for
Registrations(r) ==
  /\ registered' = registered \cup
       (IF r.route = "register" /\ r.status = 201
          THEN {<<r.data.studentId, r.data.email>>} ELSE {})
  /\ UNCHANGED <<deletedNoReg, deletedGone>>

ObserveRegistrations == Registrations(resp')

\* deletedNoReg: the studentIds a delete answered 200 for with no 201
\* registration of them since. deletedGone: the same, with no 200 update
\* that left a document under that studentId since either.
Record(made, gone, renamed) ==
  /\ deletedNoReg' = (deletedNoReg \cup gone) \ made
  /\ deletedGone' = ((deletedGone \cup gone) \ made) \ renamed
  /\ UNCHANGED registered

Deletions(r) ==
  Record(IF r.route = "register" /\ r.status = 201 THEN {r.data.studentId} ELSE {},
         IF r.route = "delete" /\ r.status = 200 /\ ~Falsy(r.studentId)
           THEN {Named(r)} ELSE {},
         IF r.route = "update" /\ r.status = 200 THEN {r.data.studentId} ELSE {})

ObserveDeletions == Deletions(resp')

\* ------------------------------------------------------------------ specifications
\* requests processed one after another, every endpoint
Next ==
  \/ Register /\ UNCHANGED hist
  \/ Login /\ UNCHANGED hist
  \/ Search1 /\ UNCHANGED hist
  \/ Search2 /\ UNCHANGED hist
  \/ Update1 /\ UNCHANGED hist
  \/ Update2 /\ UNCHANGED hist
  \/ Delete1 /\ UNCHANGED hist
  \/ Delete2 /\ UNCHANGED hist
  \/ Profile /\ UNCHANGED hist

Spec == Init /\ [][Next]_vars

\* registrations, with updates and deletes between them, one after another,
\* and the observer's record of the registrations
RegNext ==
  \/ Register /\ ObserveRegistrations
  \/ Update2 /\ ObserveRegistrations
  \/ Delete1 /\ ObserveRegistrations

RegSpec == Init /\ [][RegNext]_vars

\* deletes and searches, with registrations and updates between them, one
\* after another, and the observer's record of the deletions
DelNext ==
  \/ Register /\ ObserveDeletions
  \/ Search1 /\ ObserveDeletions
  \/ Search2 /\ ObserveDeletions
  \/ Update2 /\ ObserveDeletions
  \/ Delete1 /\ ObserveDeletions
  \/ Delete2 /\ ObserveDeletions

DelSpec == Init /\ [][DelNext]_vars

\* tokens over time
AuthNext ==
  \/ Register /\ UNCHANGED hist
  \/ Login /\ UNCHANGED hist
  \/ Keep /\ UNCHANGED hist
  \/ Delete1 /\ UNCHANGED hist
  \/ Profile /\ UNCHANGED hist
  \/ Tick /\ UNCHANGED hist

AuthSpec == Init /\ [][AuthNext]_vars

\* registrations interleaved at their awaits with each other and with
\* updates and deletes
ConcNext ==
  \/ \E c \in Clients : RegisterCheck(c) /\ UNCHANGED hist
  \/ \E c \in Clients : RegisterSave(c) /\ UNCHANGED hist
  \/ Update2 /\ UNCHANGED hist
  \/ Delete1 /\ UNCHANGED hist

ConcSpec == Init /\ [][ConcNext]_vars

\* ------------------------------------------------------------------ C1
\* C1: in every state reached by interleaved register, update and delete
\* requests, no two stored records share a studentId and no two share an
\* email.
C1_UniqueKeys ==
  \A d1 \in store, d2 \in store :
    d1 # d2 => d1.studentId # d2.studentId /\ d1.email # d2.email

\* two records are stored and an update that would have given one of them
\* the other's studentId or email was turned down by the unique index
C1_Witness ==
  /\ Cardinality(store) = 2
  /\ resp.route = "update" /\ resp.status = 500

\* ------------------------------------------------------------------ C2
\* C2: a registration that passed its pre-check and whose save the unique
\* index then rejects is answered 409 and creates no record.
C2_RejectedSaveIs409 ==
  [][\A c \in Clients :
       (/\ pending[c] # NoBody
        /\ pending'[c] = NoBody
        /\ ~UniqueOk(store, NewStudent(nextId, pending[c])))
       => (resp'.status = 409 /\ store' = store)]_vars

\* ------------------------------------------------------------------ C3
\* the request reuses the studentId of pair with another email, or its email
\* with another studentId
Reuses(body, pair) ==
  LET sid == CastPath("studentId", body.studentId)
      email == CastPath("email", body.email)
  IN \/ sid = pair[1] /\ email # pair[2]
     \/ email = pair[2] /\ sid # pair[1]

StillStored(pair) ==
  \E d \in store : d.studentId = pair[1] /\ d.email = pair[2]

\* the register requests a response can be the answer to
BodiesOf(r) ==
  IF r.route # "register" THEN {}
  ELSE {b \in Bodies : b.v = r.v /\ b.studentId = r.studentId}

\* C3 as claimed: once a registration of (studentId, email) was answered 201,
\* every later registration with four non-empty fields that reuses one of
\* the two with a different other is answered 409 and changes no record.
C3_EveryLaterRegistration ==
  [][\A body \in BodiesOf(resp') :
       (/\ RegisterRequest(body)
        /\ ~RegisterMissing(body)
        /\ \E pair \in registered : Reuses(body, pair))
       => (resp'.status = 409 /\ store' = store)]_vars

\* C3 as amended: the same, for as long as the record that registration
\* created is still stored under that studentId and email.
C3_WhileStored ==
  [][\A body \in BodiesOf(resp') :
       (/\ RegisterRequest(body)
        /\ ~RegisterMissing(body)
        /\ \E pair \in registered : StillStored(pair) /\ Reuses(body, pair))
       => (resp'.status = 409 /\ store' = store)]_vars

\* a registration under a studentId no stored record has was answered 409:
\* it reused the email of a registered record that is still stored
C3_Witness ==
  /\ resp.route = "register" /\ resp.status = 409
  /\ MatchStudentId(store, resp.studentId, FALSE) = {}
  /\ \E pair \in registered : StillStored(pair) /\ pair[1] # Named(resp)

\* ------------------------------------------------------------------ C4
\* C4: no response carries a password field.
C4_NoPasswordInResponse == "password" \notin DOMAIN resp.data

\* an update answered 200 with a record whose stored password is the one a
\* newData set
C4_Witness ==
  /\ resp.route = "update" /\ resp.status = 200
  /\ \E d \in store : d._id = resp.data._id /\ d.password = Pw2

\* ------------------------------------------------------------------ C5
\* C5: a login with non-empty studentId and password whose studentId matches
\* no record, and one whose password does not match the record's, get the
\* same answer: 401, 'Invalid credentials', no token, no data.
C5_SameRejection ==
  [][\A v \in Versions, c \in Credentials :
       (/\ resp'.route = "login" /\ resp'.v = v /\ resp'.studentId = c[1]
        /\ LoginRequest(v, c[1], c[2])
        /\ ~Falsy(c[1]) /\ ~Falsy(c[2])
        /\ \A d \in MatchStudentId(store, c[1], FALSE) : ~BcryptCompare(c[2], d.password))
       => resp' = [Reply("login", v, 401, "Invalid credentials") EXCEPT !.studentId = c[1]]]_vars

\* a login for a stored studentId was answered 401
C5_Witness ==
  /\ resp.route = "login" /\ resp.status = 401
  /\ MatchStudentId(store, resp.studentId, FALSE) # {}

\* ------------------------------------------------------------------ C6
\* the header carries a correctly signed token that has not expired
ValidBearer(header, t) ==
  /\ header.scheme = "Bearer"
  /\ header.token.sig = "ok"
  /\ t < header.token.exp

\* the answer is 200 from the profile handler with the record of subject id
ProfileOf(r, s, id) ==
  /\ r.route = "profile" /\ r.status = 200
  /\ \E d \in s : d._id = id /\ r.data = Project(d, Fields \ {"password"})

\* the answer is the middleware's 401: the handler body was not reached
Turned401(r) == r.route = "authenticate" /\ r.status = 401 /\ r.data = NoData

\* C6 as claimed: the profile endpoint answers 200 with the token subject's
\* record exactly when the request carries a correctly signed, unexpired
\* bearer token, and 401 from the middleware otherwise.
C6_ValidTokenIffProfile ==
  [][\A header \in Headers :
       (resp'.header = header /\ ProfileRequest(header))
       => IF ValidBearer(header, now)
            THEN ProfileOf(resp', store, BearerToken(header).id)
            ELSE Turned401(resp')]_vars

\* C6 as amended: ... exactly when the token is correctly signed, unexpired
\* and its subject's record is still stored.
C6_ValidTokenAndRecordIffProfile ==
  [][\A header \in Headers :
       (resp'.header = header /\ ProfileRequest(header))
       => IF /\ ValidBearer(header, now)
             /\ \E d \in store : d._id = BearerToken(header).id
            THEN ProfileOf(resp', store, BearerToken(header).id)
            ELSE Turned401(resp')]_vars

\* a correctly signed token was presented after its expiry and turned down
\* while its subject's record is stored
C6_Witness ==
  /\ resp.route = "authenticate" /\ resp.error = "Invalid or expired token"
  /\ resp.header.token.sig = "ok"
  /\ now >= resp.header.token.exp
  /\ \E d \in store : d._id = resp.header.token.id

\* ------------------------------------------------------------------ C7
\* C7: a delete, update or search request whose studentId is missing or
\* empty is answered 400 and changes no record.
C7_MissingIdIs400 ==
  [][(resp'.route \in {"delete", "update", "search"} /\ Falsy(resp'.studentId))
       => (resp'.status = 400 /\ store' = store)]_vars

\* ------------------------------------------------------------------ C8
\* a delete or search request naming studentId sid was answered
Asked(r, routes, sid) ==
  r.route \in routes /\ ~Falsy(r.studentId) /\ Named(r) = sid

\* a delete of a stored studentId is answered 200 and removes the record
FirstDelete200 ==
  \A d \in store :
    Asked(resp', {"delete"}, d.studentId) => (resp'.status = 200 /\ d \notin store')

\* C8 as claimed: the first delete of a stored studentId S returns 200, and
\* with no registration of S since, every later delete of S and search for S
\* returns 404.
C8_DeleteThen404 ==
  [][resp'.route \in {"delete", "search"} =>
       /\ FirstDelete200
       /\ \A sid \in deletedNoReg :
            Asked(resp', {"delete", "search"}, sid) => resp'.status = 404]_vars

\* C8 as amended: ... with no registration of S and no update that leaves a
\* record under studentId S since ...
C8_DeleteThen404UnlessRenamed ==
  [][resp'.route \in {"delete", "search"} =>
       /\ FirstDelete200
       /\ \A sid \in deletedGone :
            Asked(resp', {"delete", "search"}, sid) => resp'.status = 404]_vars

\* a second delete of a deleted studentId was answered 404
C8_Witness ==
  /\ resp.route = "delete" /\ resp.status = 404
  /\ ~Falsy(resp.studentId) /\ Named(resp) \in deletedGone

\* ------------------------------------------------------------------ C9
\* an update request with a studentId that is not empty and matches no
\* record, and a newData that sets something
UpdateOfUnknown(sid, newData) ==
  /\ resp'.route = "update" /\ resp'.studentId = sid
  /\ ~Falsy(sid)
  /\ newData.present /\ DOMAIN newData.set # {}
  /\ MatchStudentId(store, sid, FALSE) = {}
  /\ \/ resp'.v = 1 /\ Update1Request(sid, newData)
     \/ resp'.v = 2 /\ Update2Request(sid, newData)

\* the first definition's validators reject newData
Rejected(newData) ==
  \E f \in DOMAIN newData.set : ~ValidPath(f, CastPath(f, newData.set[f]))

C10_PasswordsHashed == \A d \in store : IsBcryptHash(d.password)

====
